---- MODULE Spec2Model ----
(***************************************************************************)
(* The Vban ink! contract (src/lib.rs): a fixed-supply token ledger with   *)
(* one constructor (new), two queries (total_supply, balance_of) and one   *)
(* mutating message (transfer -> transfer_token).                          *)
(*                                                                         *)
(* Balance is an unsigned integer type with values 0..BalanceMax (u128 in  *)
(* the ink! default environment, scaled down here); AccountId is an opaque *)
(* key, modelled as 1..NumAccounts.  The storage Mapping is sparse: a      *)
(* function whose DOMAIN is the set of keys that were ever inserted.       *)
(***************************************************************************)
EXTENDS Integers, FiniteSets, TLC

\* ---------------------------------------------------------------- bounds
NumAccounts == 3
BalanceMax == 4

AccountId == 1..NumAccounts
Modulus == BalanceMax + 1
Balance == 0..BalanceMax

VARIABLES
    total_supply,   \* Vban.total_supply
    balances,       \* Vban.balances: sparse map AccountId -> Balance
    ctor_supply,    \* history: the argument the constructor was given
    last,           \* history: the last call, its inputs, its result and the
                    \* storage it started from
    call            \* the transfer_token call in progress: its position and
                    \* its local variables (Idle between calls)

vars == <<total_supply, balances, ctor_supply, last, call>>

\* ------------------------------------------------------- storage Mapping
\* Mapping::default(): no key has an entry.
Mapping_default == [k \in {} |-> 0]

\* Mapping::get(key): Option<Balance>.
Mapping_get(m, key) ==
    IF key \in DOMAIN m THEN [some |-> TRUE, v |-> m[key]]
                        ELSE [some |-> FALSE, v |-> 0]

\* Option::unwrap_or_default(): the value, or Balance::default() = 0.
unwrap_or_default(opt) == IF opt.some THEN opt.v ELSE 0

\* Mapping::insert writing the whole map instead of one entry: every other
\* key loses its entry.
Mapping_insert_only(m, key, value) == [k \in {key} |-> value]

\* Mapping::insert(key, value): inserts or overwrites the entry of key.
Mapping_insert(m, key, value) ==
    [k \in (DOMAIN m) \cup {key} |-> IF k = key THEN value ELSE m[k]]

\* -------------------------------------------------- unsigned arithmetic
\* a - b on the unsigned Balance type.  When a < b the result depends on
\* the build: with overflow checks the call traps, without them the value
\* wraps modulo BalanceMax + 1.  Both outcomes are kept.
Balance_sub(a, b) ==
    IF a >= b
    THEN {[v |-> a - b, flow |-> "exact"]}
    ELSE {[v |-> (a - b + Modulus) % Modulus, flow |-> "sub_wrapped"],
          [v |-> 0, flow |-> "sub_trap"]}

\* a + b on the unsigned Balance type, with the same two outcomes when the
\* sum exceeds the type's maximum.
Balance_add(a, b) ==
    IF a + b <= BalanceMax
    THEN {[v |-> a + b, flow |-> "exact"]}
    ELSE {[v |-> (a + b) % Modulus, flow |-> "add_wrapped"],
          [v |-> 0, flow |-> "add_trap"]}

\* ------------------------------------------------------------- contract
\* The contract's storage as one value (Rust's self).
Vban(ts, bs) == [total_supply |-> ts, balances |-> bs]

\* new with the insert of line 35 left out: nobody is credited.
new_uncredited(caller, supply) == Vban(supply, Mapping_default)

\* Vban::new(total_supply), invoked by caller.
new(caller, supply) ==
    Vban(supply, Mapping_insert(Mapping_default, caller, supply))

\* Vban::total_supply(&self).
get_total_supply(self) == self.total_supply

\* Vban::balance_of(&self, owner).
balance_of(self, owner) == unwrap_or_default(Mapping_get(self.balances, owner))

\* The outcome of one call of a message returning Result<()>.
\*   result: "Ok", "InsufficientBalance", or "Trap" (the call panicked; the
\*           execution environment discards the call's storage writes)
\*   arith:  "exact", or which arithmetic step left the exact range
Outcome(self, result, arith) == [self |-> self, result |-> result, arith |-> arith]

\* transfer_writes with the credited amount also stored as total_supply.
transfer_writes_supply(self, from, to, d, c) ==
    LET debited == Mapping_insert(self.balances, from, d.v)
    IN  IF d.flow = "sub_trap" THEN Outcome(self, "Trap", d.flow)
        ELSE IF c.flow = "add_trap" THEN Outcome(self, "Trap", c.flow)
        ELSE Outcome(Vban(c.v, Mapping_insert(debited, to, c.v)), "Ok",
                     IF d.flow # "exact" THEN d.flow ELSE c.flow)

\* Lines 72-76 of transfer_token, for one outcome d of the subtraction and
\* one outcome c of the addition.
transfer_writes(self, from, to, d, c) ==
    LET debited == Vban(self.total_supply, Mapping_insert(self.balances, from, d.v))
        credited == Vban(self.total_supply, Mapping_insert(debited.balances, to, c.v))
    IN  IF d.flow = "sub_trap" THEN Outcome(self, "Trap", d.flow)
        ELSE IF c.flow = "add_trap" THEN Outcome(self, "Trap", c.flow)
        ELSE Outcome(credited, "Ok",
                     IF d.flow # "exact" THEN d.flow ELSE c.flow)

\* transfer_token with to_balance read before the debit is written.
transfer_token_stale_read(self, from, to, value) ==
    LET from_balance == balance_of(self, from)
        to_balance == balance_of(self, to)
    IN  IF from_balance < value
        THEN {Outcome(self, "InsufficientBalance", "exact")}
        ELSE {transfer_writes(self, from, to, d, c) :
                 d \in Balance_sub(from_balance, value),
                 c \in Balance_add(to_balance, value)}

\* transfer_token with the sufficiency check written <= instead of <.
transfer_token_le(self, from, to, value) ==
    LET from_balance == balance_of(self, from) IN
    IF from_balance <= value
    THEN {Outcome(self, "InsufficientBalance", "exact")}
    ELSE UNION {
           LET debited == Vban(self.total_supply,
                               Mapping_insert(self.balances, from, d.v))
               to_balance == balance_of(debited, to)
           IN  {transfer_writes(self, from, to, d, c) :
                    c \in Balance_add(to_balance, value)}
           : d \in Balance_sub(from_balance, value)}

\* transfer_token without the sufficiency check of lines 68-70.
transfer_token_no_check(self, from, to, value) ==
    LET from_balance == balance_of(self, from) IN
    UNION {
       LET debited == Vban(self.total_supply,
                           Mapping_insert(self.balances, from, d.v))
           to_balance == balance_of(debited, to)
       IN  {transfer_writes(self, from, to, d, c) :
                c \in Balance_add(to_balance, value)}
       : d \in Balance_sub(from_balance, value)}

\* transfer_token with the debit written before the sufficiency check.
transfer_token_early_debit(self, from, to, value) ==
    LET from_balance == balance_of(self, from)
        kept == IF from_balance >= value THEN from_balance - value ELSE 0
        debited == Vban(self.total_supply,
                        Mapping_insert(self.balances, from, kept))
    IN  IF from_balance < value
        THEN {Outcome(debited, "InsufficientBalance", "exact")}
        ELSE {transfer_writes(self, from, to, [v |-> kept, flow |-> "exact"], c) :
                 c \in Balance_add(balance_of(debited, to), value)}

\* transfer_token with the credit overwriting the destination's balance.
transfer_token_overwrite(self, from, to, value) ==
    LET from_balance == balance_of(self, from) IN
    IF from_balance < value
    THEN {Outcome(self, "InsufficientBalance", "exact")}
    ELSE {transfer_writes(self, from, to, d, c) :
             d \in Balance_sub(from_balance, value),
             c \in Balance_add(0, value)}

\* transfer_token refusing a source that has no map entry, whatever the
\* value: the lookup of line 67 without its unwrap_or_default.
transfer_token_requires_entry(self, from, to, value) ==
    LET from_balance == balance_of(self, from) IN
    IF from \notin DOMAIN self.balances \/ from_balance < value
    THEN {Outcome(self, "InsufficientBalance", "exact")}
    ELSE UNION {
           LET debited == Vban(self.total_supply,
                               Mapping_insert(self.balances, from, d.v))
               to_balance == balance_of(debited, to)
           IN  {transfer_writes(self, from, to, d, c) :
                    c \in Balance_add(to_balance, value)}
           : d \in Balance_sub(from_balance, value)}

\* Vban::transfer_token(&mut self, from, to, value): the set of outcomes.
transfer_token(self, from, to, value) ==
    LET from_balance == balance_of(self, from) IN
    IF from_balance < value
    THEN {Outcome(self, "InsufficientBalance", "exact")}
    ELSE UNION {
           LET debited == Vban(self.total_supply,
                               Mapping_insert(self.balances, from, d.v))
               to_balance == balance_of(debited, to)
           IN  {transfer_writes(self, from, to, d, c) :
                    c \in Balance_add(to_balance, value)}
           : d \in Balance_sub(from_balance, value)}

\* transfer with the two accounts passed to transfer_token in the wrong
\* order: the destination is debited and the caller credited.
transfer_swapped(self, caller, to, value) ==
    LET from == caller IN transfer_token(self, to, from, value)

\* Vban::transfer(&mut self, to, value), invoked by caller.
transfer(self, caller, to, value) ==
    LET from == caller IN transfer_token(self, from, to, value)

\* ---------------------------------------------------------------- state
Self == Vban(total_supply, balances)

\* balance_of(account) in the current storage, and in the storage the last
\* call started from.
Bal(a) == balance_of(Self, a)
PreBal(a) == balance_of(last.pre, a)

\* The accounts the last call drained: it was a successful transfer of a
\* positive amount to another account that left its caller with nothing.
Drained ==
    IF /\ last.op = "transfer" /\ last.result = "Ok" /\ last.value >= 1
       /\ last.account # last.caller /\ Bal(last.caller) = 0
    THEN {last.caller} ELSE {}

\* The filler of a call record's account fields for a call that has none.
NoAccount == CHOOSE a \in AccountId : TRUE

\* No call is in progress.
Idle == [pc |-> "idle", from |-> NoAccount, to |-> NoAccount, value |-> 0,
         from_balance |-> 0, to_balance |-> 0, arith |-> "exact"]

\* The record of a call: its inputs, its result (result, arith: a message
\* returning Result<()>; ret: a query's value), the storage it started from
\* (pre) and whether the call before it drained this transfer's caller
\* (after_drain).
Call(op, caller, account, value, result, arith, ret) ==
    [op |-> op, caller |-> caller, account |-> account, value |-> value,
     result |-> result, arith |-> arith, ret |-> ret,
     pre |-> Self,
     after_drain |-> (op = "transfer" /\ caller \in Drained)]

\* The state right after the constructor ran: new(supply) by caller.
Init ==
    \E caller \in AccountId, supply \in Balance :
        /\ total_supply = new(caller, supply).total_supply
        /\ balances = new(caller, supply).balances
        /\ ctor_supply = supply
        /\ last = [op |-> "new", caller |-> caller, account |-> caller,
                   value |-> supply, result |-> "Ok", arith |-> "exact",
                   ret |-> 0,
                   pre |-> Vban(0, Mapping_default), after_drain |-> FALSE]
        /\ call = Idle

\* The message transfer(to, value) sent by caller.
Transfer ==
    \E caller \in AccountId, to \in AccountId, value \in Balance :
        \E out \in transfer(Self, caller, to, value) :
            /\ total_supply' = out.self.total_supply
            /\ balances' = out.self.balances
            /\ last' = Call("transfer", caller, to, value, out.result, out.arith, 0)
            /\ UNCHANGED <<ctor_supply, call>>

\* balance_of as a get-or-insert: the query leaves an entry 0 behind for an
\* owner that had none.
BalanceOf_inserting ==
    \E owner \in AccountId :
        /\ last' = Call("balance_of", NoAccount, owner, 0, "Ok", "exact",
                        balance_of(Self, owner))
        /\ balances' = Mapping_insert(balances, owner, balance_of(Self, owner))
        /\ UNCHANGED <<total_supply, ctor_supply, call>>

\* The query balance_of(owner); it does not read the caller.
BalanceOf ==
    \E owner \in AccountId :
        /\ last' = Call("balance_of", NoAccount, owner, 0, "Ok", "exact",
                        balance_of(Self, owner))
        /\ UNCHANGED <<total_supply, balances, ctor_supply, call>>

\* The query total_supply(); it does not read the caller.
TotalSupply ==
        /\ last' = Call("total_supply", NoAccount, NoAccount, 0, "Ok", "exact",
                        get_total_supply(Self))
        /\ UNCHANGED <<total_supply, balances, ctor_supply, call>>

Next == Transfer \/ BalanceOf \/ TotalSupply

Spec == Init /\ [][Next]_vars

\* ------------------------------------------- transfer, statement by statement
\* The same contract with transfer_token taken one statement at a time.
\* A message takes &mut self (a query &self) and the contract calls
\* nothing outside itself, so a message starts only when none is in
\* progress.  While a transfer runs, last records it with result "Running".

\* Lines 57-58 and 67-70: the caller becomes from, from_balance is read and
\* checked; a short source returns InsufficientBalance at once.
StepCheck ==
    /\ call.pc = "idle"
    /\ \E caller \in AccountId, to \in AccountId, value \in Balance :
        LET from == caller
            from_balance == balance_of(Self, from)
        IN  IF from_balance < value
            THEN /\ last' = Call("transfer", caller, to, value,
                                 "InsufficientBalance", "exact", 0)
                 /\ UNCHANGED call
            ELSE /\ last' = Call("transfer", caller, to, value,
                                 "Running", "exact", 0)
                 /\ call' = [pc |-> "checked", from |-> from, to |-> to,
                             value |-> value, from_balance |-> from_balance,
                             to_balance |-> 0, arith |-> "exact"]
    /\ UNCHANGED <<total_supply, balances, ctor_supply>>

\* Line 72: the debit is written.
StepDebit ==
    /\ call.pc = "checked"
    /\ \E d \in Balance_sub(call.from_balance, call.value) :
        IF d.flow = "sub_trap"
        THEN /\ balances' = last.pre.balances
             /\ last' = [last EXCEPT !.result = "Trap", !.arith = d.flow]
             /\ call' = Idle
        ELSE /\ balances' = Mapping_insert(balances, call.from, d.v)
             /\ call' = [call EXCEPT !.pc = "debited", !.arith = d.flow]
             /\ UNCHANGED last
    /\ UNCHANGED <<total_supply, ctor_supply>>

\* Line 73: to_balance is read from the storage the debit was written to.
StepReadTo ==
    /\ call.pc = "debited"
    /\ call' = [call EXCEPT !.pc = "read",
                            !.to_balance = balance_of(Self, call.to)]
    /\ UNCHANGED <<total_supply, balances, ctor_supply, last>>

\* StepCredit returning Ok without the insert of line 74.
StepCredit_dropped ==
    /\ call.pc = "read"
    /\ last' = [last EXCEPT !.result = "Ok", !.arith = call.arith]
    /\ call' = Idle
    /\ UNCHANGED <<total_supply, balances, ctor_supply>>

\* Lines 74-76: the credit is written and the call returns Ok.
StepCredit ==
    /\ call.pc = "read"
    /\ \E c \in Balance_add(call.to_balance, call.value) :
        IF c.flow = "add_trap"
        THEN /\ balances' = last.pre.balances
             /\ last' = [last EXCEPT !.result = "Trap", !.arith = c.flow]
        ELSE /\ balances' = Mapping_insert(balances, call.to, c.v)
             /\ last' = [last EXCEPT !.result = "Ok",
                                     !.arith = IF call.arith # "exact"
                                               THEN call.arith ELSE c.flow]
    /\ call' = Idle
    /\ UNCHANGED <<total_supply, ctor_supply>>

\* The query balance_of(owner), between calls.
StepBalanceOf == call.pc = "idle" /\ BalanceOf

\* The query total_supply(), between calls.
StepTotalSupply == call.pc = "idle" /\ TotalSupply

NextSteps ==
    \/ StepCheck \/ StepDebit \/ StepReadTo \/ StepCredit
    \/ StepBalanceOf \/ StepTotalSupply

SpecSteps == Init /\ [][NextSteps]_vars

\* --------------------------------------------------------------- claims
\* The sum of balance_of(a) over the accounts of the set S.
RECURSIVE SumOver(_, _)
SumOver(self, S) ==
    IF S = {} THEN 0
    ELSE LET a == CHOOSE x \in S : TRUE
         IN  balance_of(self, a) + SumOver(self, S \ {a})

SumBalances(self) == SumOver(self, AccountId)

\* The accounts whose balance_of is positive.
Holders == {a \in AccountId : Bal(a) > 0}

\* C1 (conservation): in every state reachable from new(S) by any sequence
\* of transfer calls, successful or failed, the sum of balance_of(a) over
\* all accounts equals S, the supply given to the constructor.
C1_Conservation == SumBalances(Self) = ctor_supply

\* C1's case: a successful transfer of a positive amount to another account
\* has left the supply spread over more than one account.
C1_Witness ==
    /\ last.op = "transfer" /\ last.result = "Ok" /\ last.value >= 1
    /\ last.account # last.caller
    /\ Cardinality(Holders) >= 2

\* C2 (insufficient transfer rejected without mutation): whenever the
\* caller's balance is strictly less than value, transfer returns
\* InsufficientBalance and every balance, every map entry and total_supply
\* are what they were before the call.
C2_InsufficientNoMutation ==
    (last.op = "transfer" /\ PreBal(last.caller) < last.value) =>
        /\ last.result = "InsufficientBalance"
        /\ \A a \in AccountId : Bal(a) = PreBal(a)
        /\ balances = last.pre.balances
        /\ total_supply = last.pre.total_supply

\* C2's case: a caller holding tokens asked for more than it holds, to
\* another account, and was refused.
C2_Witness ==
    /\ last.op = "transfer" /\ last.result = "InsufficientBalance"
    /\ PreBal(last.caller) >= 1 /\ last.value > PreBal(last.caller)
    /\ last.account # last.caller

\* C3 (successful transfer updates both sides): for caller c, destination
\* to # c and value <= balance_of(c), transfer returns Ok, and afterwards
\* balance_of(c) is its old value minus value and balance_of(to) is its old
\* value plus value.
C3_TransferUpdatesBothSides ==
    (/\ last.op = "transfer" /\ last.account # last.caller
     /\ last.value <= PreBal(last.caller)) =>
        /\ last.result = "Ok"
        /\ Bal(last.caller) = PreBal(last.caller) - last.value
        /\ Bal(last.account) = PreBal(last.account) + last.value

\* C3's case: a positive amount was moved to an account that already held
\* tokens.
C3_Witness ==
    /\ last.op = "transfer" /\ last.account # last.caller
    /\ last.value >= 1 /\ last.value <= PreBal(last.caller)
    /\ PreBal(last.account) >= 1
    /\ last.result = "Ok"

\* C4 (construction): immediately after new(S) invoked by caller c,
\* total_supply() = S, balance_of(c) = S, and balance_of(a) = 0 for every
\* other account a.
C4_Construction ==
    last.op = "new" =>
        /\ get_total_supply(Self) = last.value
        /\ Bal(last.caller) = last.value
        /\ \A a \in AccountId \ {last.caller} : Bal(a) = 0

\* C4's case: the state right after new(S) with S > 0.
C4_Witness == last.op = "new" /\ last.value >= 1 /\ ctor_supply = last.value

\* C5 (self-transfer is a no-op): for any caller c and value <=
\* balance_of(c), transfer(c, value) returns Ok and leaves every balance
\* unchanged.
C5_SelfTransferNoOp ==
    (/\ last.op = "transfer" /\ last.account = last.caller
     /\ last.value <= PreBal(last.caller)) =>
        /\ last.result = "Ok"
        /\ \A a \in AccountId : Bal(a) = PreBal(a)

\* C5's case: a caller sent a positive amount to itself.
C5_Witness ==
    /\ last.op = "transfer" /\ last.account = last.caller
    /\ last.value >= 1 /\ last.value <= PreBal(last.caller)
    /\ last.result = "Ok"

\* C6 (zero-value transfer always succeeds): in every reachable state, for
\* every caller (also one with zero balance or no map entry) and every
\* destination, transfer(to, 0) returns Ok and balance_of(a) is unchanged
\* for every account a.
C6_ZeroValueTransfer ==
    (last.op = "transfer" /\ last.value = 0) =>
        /\ last.result = "Ok"
        /\ \A a \in AccountId : Bal(a) = PreBal(a)

\* C6's case: a caller with no map entry sent 0 to another account that had
\* no entry either.
C6_Witness ==
    /\ last.op = "transfer" /\ last.value = 0 /\ last.result = "Ok"
    /\ last.caller \notin DOMAIN last.pre.balances
    /\ last.account \notin DOMAIN last.pre.balances
    /\ last.account # last.caller

\* balance_of(a) in the storage a step leads to.
NextBal(a) == balance_of(Vban(total_supply', balances'), a)

\* One step of C7, for the account c.
C7_Step(c) ==
    /\ (/\ last'.op = "transfer" /\ last'.caller = c /\ last'.account # c
        /\ last'.value = Bal(c)) =>
           /\ last'.result = "Ok"
           /\ NextBal(c) = 0
           /\ NextBal(last'.account) = Bal(last'.account) + last'.value
    /\ Bal(c) = 0 =>
           /\ (last'.op = "transfer" /\ last'.caller = c /\ last'.value >= 1) =>
                  last'.result = "InsufficientBalance"
           /\ NextBal(c) # 0 =>
                  /\ last'.op = "transfer" /\ last'.result = "Ok"
                  /\ last'.caller # c /\ last'.account = c /\ last'.value >= 1

\* C7 (exact-balance transfer drains to zero): a transfer of exactly the
\* caller's balance to another account succeeds, leaves the caller at 0 and
\* the destination increased by value; and while an account's balance is 0
\* every transfer it sends with value >= 1 fails with InsufficientBalance,
\* its balance leaving 0 only by a successful transfer to it from another
\* account.
C7_ExactBalanceDrains == [][\A c \in AccountId : C7_Step(c)]_vars

\* C7's case: right after a transfer drained its caller, the same caller
\* tried to send a positive amount and was refused.
C7_Witness ==
    /\ last.op = "transfer" /\ last.after_drain
    /\ last.value >= 1 /\ last.result = "InsufficientBalance"
    /\ Bal(last.caller) = 0

\* C8 (InsufficientBalance is the only failure mode): transfer(to, value)
\* by caller c returns InsufficientBalance if and only if balance_of(c) <
\* value, and returns Ok otherwise; no trap is reachable.
C8_OnlyInsufficientBalance ==
    last.op = "transfer" =>
        /\ last.result \in {"Ok", "InsufficientBalance"}
        /\ last.result = "InsufficientBalance" <=> PreBal(last.caller) < last.value
        /\ last.result = "Ok" <=> PreBal(last.caller) >= last.value

\* C8's case: a caller was refused for being short by exactly one token.
C8_Witness ==
    /\ last.op = "transfer" /\ last.result = "InsufficientBalance"
    /\ last.value = PreBal(last.caller) + 1

\* C9 (non-negativity): every stored balance is >= 0 and within the Balance
\* type, and the subtraction from_balance - value in transfer_token is only
\* ever evaluated with from_balance >= value: it neither traps nor wraps.
C9_NonNegativity ==
    /\ \A k \in DOMAIN balances : balances[k] >= 0 /\ balances[k] \in Balance
    /\ last.arith \notin {"sub_wrapped", "sub_trap"}
    /\ (last.op = "transfer" /\ last.result # "InsufficientBalance") =>
           /\ PreBal(last.caller) >= last.value
           /\ Bal(last.caller) <= PreBal(last.caller)

\* C9's case: the subtraction ran and left its caller a positive remainder.
C9_Witness ==
    /\ last.op = "transfer" /\ last.result = "Ok"
    /\ last.value >= 1 /\ last.account # last.caller
    /\ Bal(last.caller) >= 1
    /\ Bal(last.caller) = PreBal(last.caller) - last.value

\* C10 (total_supply is immutable): after new(S), total_supply() returns S
\* in every reachable state, whatever transfers have been executed.
C10_TotalSupplyImmutable ==
    /\ get_total_supply(Self) = ctor_supply
    /\ last.op = "total_supply" => last.ret = ctor_supply

\* C10's case: total_supply() was asked of a ledger whose supply successful
\* transfers had spread over every account.
C10_Witness ==
    /\ last.op = "total_supply" /\ last.ret = ctor_supply
    /\ Holders = AccountId

\* C11 (queries are pure and total): total_supply() and balance_of(account)
\* never fail and leave total_supply, every balance and the set of map
\* entries unchanged; balance_of of an account with no entry returns 0; and
\* after construction only a transfer changes any balance.
C11_QueriesPure ==
    /\ last.op \in {"total_supply", "balance_of"} =>
           /\ last.result = "Ok" /\ last.arith = "exact"
           /\ balances = last.pre.balances
           /\ total_supply = last.pre.total_supply
    /\ last.op = "total_supply" => last.ret = last.pre.total_supply
    /\ last.op = "balance_of" =>
           /\ last.account \in DOMAIN last.pre.balances =>
                  last.ret = last.pre.balances[last.account]
           /\ last.account \notin DOMAIN last.pre.balances => last.ret = 0
    /\ (\E a \in AccountId : Bal(a) # PreBal(a)) => last.op \in {"new", "transfer"}

\* C11's case: balance_of was asked about an account that has no entry,
\* while another account holds tokens.
C11_Witness ==
    /\ last.op = "balance_of" /\ last.ret = 0
    /\ last.account \notin DOMAIN balances
    /\ Holders # {}

\* The balance the credit step of the last transfer read for its
\* destination: the destination's balance after the debit was written.
CreditRead ==
    IF last.account = last.caller THEN PreBal(last.caller) - last.value
                                  ELSE PreBal(last.account)

\* C12 (the credit addition cannot overflow): for every transfer that
\* passes the sufficiency check, to_balance + value at the credit step is
\* at most total_supply (also when from = to), so the addition neither
\* exceeds the Balance type's maximum nor wraps.
C12_CreditNoOverflow ==
    (last.op = "transfer" /\ last.result # "InsufficientBalance") =>
        /\ last.arith \notin {"add_wrapped", "add_trap"}
        /\ CreditRead + last.value <= total_supply
        /\ CreditRead + last.value <= BalanceMax
        /\ Bal(last.account) = CreditRead + last.value

\* C12's case: a credit added a positive amount to a positive balance and
\* reached the whole supply.
C12_Witness ==
    /\ last.op = "transfer" /\ last.result = "Ok"
    /\ last.account # last.caller
    /\ last.value >= 1 /\ PreBal(last.account) >= 1
    /\ PreBal(last.account) + last.value = total_supply

\* C13 (only the caller can be debited): a transfer invoked by caller c
\* never decreases the balance of an account other than c; an account's
\* balance decreases only through a transfer whose caller is that account.
C13_OnlyCallerDebited ==
    \A a \in AccountId :
        Bal(a) < PreBal(a) => (last.op = "transfer" /\ last.caller = a)

\* C13's case: a transfer decreased its caller's balance while a third
\* account held tokens.
C13_Witness ==
    /\ last.op = "transfer" /\ last.result = "Ok"
    /\ Bal(last.caller) < PreBal(last.caller)
    /\ \E a \in AccountId \ {last.caller, last.account} : Bal(a) >= 1

\* C15 (frame of transfer): a transfer(to, value) by caller c, successful
\* or failed, leaves balance_of(a) and the map entry of every account a
\* other than c and to unchanged, and leaves total_supply unchanged.
C15_TransferFrame ==
    last.op = "transfer" =>
        /\ total_supply = last.pre.total_supply
        /\ \A a \in AccountId \ {last.caller, last.account} :
               /\ Bal(a) = PreBal(a)
               /\ a \in DOMAIN balances <=> a \in DOMAIN last.pre.balances

\* C15's case: a successful transfer of a positive amount between two
\* accounts while a third one held tokens.
C15_Witness ==
    /\ last.op = "transfer" /\ last.result = "Ok" /\ last.value >= 1
    /\ last.account # last.caller
    /\ \E a \in AccountId \ {last.caller, last.account} : PreBal(a) >= 1

\* C17 (every balance is bounded by the supply): in every reachable state,
\* balance_of(a) <= total_supply for every account a.
C17_BalanceBoundedBySupply ==
    \A a \in AccountId : Bal(a) <= get_total_supply(Self)

\* C17's case: transfers have gathered the whole supply in an account that
\* received it from others.
C17_Witness ==
    /\ last.op = "transfer" /\ last.result = "Ok" /\ last.value >= 1
    /\ last.account # last.caller
    /\ PreBal(last.account) >= 1
    /\ Bal(last.account) = get_total_supply(Self)

\* The dense reference ledger of C16: every account has an entry, 0 unless
\* credited.  Its operations are those of the contract on a total map.
dense_new(caller, supply) ==
    Vban(supply, [a \in AccountId |-> IF a = caller THEN supply ELSE 0])

dense_total_supply(d) == d.total_supply

dense_balance_of(d, owner) == d.balances[owner]

dense_transfer(d, from, to, value) ==
    LET from_balance == dense_balance_of(d, from) IN
    IF from_balance < value
    THEN {[self |-> d, result |-> "InsufficientBalance"]}
    ELSE UNION {
           LET debited == [d.balances EXCEPT ![from] = s.v] IN
           {IF s.flow = "sub_trap" \/ c.flow = "add_trap"
            THEN [self |-> d, result |-> "Trap"]
            ELSE [self |-> Vban(d.total_supply, [debited EXCEPT ![to] = c.v]),
                  result |-> "Ok"] :
               c \in Balance_add(debited[to], value)}
           : s \in Balance_sub(from_balance, value)}

\* The dense ledger a sparse storage corresponds to: what a dense ledger
\* run through the same calls holds, if the two have agreed so far.
Dense(self) ==
    Vban(self.total_supply, [a \in AccountId |-> balance_of(self, a)])

\* C16 (absent entry and stored zero are indistinguishable): call by call,
\* the sparse storage and the dense ledger return the same result for new,
\* balance_of, total_supply and transfer, and stay in correspondence; so
\* over every sequence of calls no observation tells them apart.
C16_SparseDenseEquivalent ==
    /\ last.op = "new" =>
           Dense(Self) = dense_new(last.caller, last.value)
    /\ last.op = "transfer" =>
           [self |-> Dense(Self), result |-> last.result]
               \in dense_transfer(Dense(last.pre), last.caller,
                                  last.account, last.value)
    /\ last.op = "balance_of" =>
           /\ last.ret = dense_balance_of(Dense(last.pre), last.account)
           /\ Dense(Self) = Dense(last.pre)
    /\ last.op = "total_supply" =>
           /\ last.ret = dense_total_supply(Dense(last.pre))
           /\ Dense(Self) = Dense(last.pre)

\* C16's case: a transfer whose caller had no entry succeeded and left
\* explicit 0 entries, while a third account still has no entry at all.
C16_Witness ==
    /\ last.op = "transfer" /\ last.result = "Ok"
    /\ last.caller \notin DOMAIN last.pre.balances
    /\ last.caller \in DOMAIN balances /\ balances[last.caller] = 0
    /\ \E a \in AccountId : a \notin DOMAIN balances

\* C14 (all-or-nothing transfer under sequential invocation): with transfer
\* taken statement by statement, the sum of balances differs from
\* total_supply only strictly inside one transfer, between its debit write
\* and its credit write; every query and every transfer starts from a
\* storage whose balances sum to total_supply; and every completed transfer
\* has the effect of the whole transfer: both writes applied, or none.
C14_AllOrNothing ==
    /\ SumBalances(Self) # total_supply => call.pc \in {"debited", "read"}
    /\ last.op \in {"balance_of", "total_supply", "transfer"} =>
           SumBalances(last.pre) = last.pre.total_supply
    /\ (last.op = "transfer" /\ last.result = "Running") <=> call.pc # "idle"
    /\ (last.op = "transfer" /\ call.pc = "idle") =>
           /\ Outcome(Self, last.result, last.arith)
                  \in transfer(last.pre, last.caller, last.account, last.value)
           /\ last.result = "Ok" =>
                  /\ {last.caller, last.account} \subseteq DOMAIN balances
                  /\ last.account # last.caller =>
                         /\ Bal(last.caller) = PreBal(last.caller) - last.value
                         /\ Bal(last.account) = PreBal(last.account) + last.value
           /\ last.result # "Ok" => balances = last.pre.balances

\* C14's case: a transfer to another account stands between its debit
\* write and its credit write, and the balances sum to less than
\* total_supply.
C14_Witness ==
    /\ call.pc = "read" /\ call.to # call.from /\ call.value >= 1
    /\ SumBalances(Self) = total_supply - call.value
    /\ last.op = "transfer" /\ last.result = "Running"

====
